---- MODULE Spec2Model ----
(***************************************************************************)
(* Model of hdf_compass/filesystem_model/model.py: the Filesystem store,   *)
(* its Directory (Container) and File (Array) nodes, and the backing file  *)
(* system they query.  Paths are sequences of one-character strings so     *)
(* that op.join and op.dirname are computed as posixpath computes them.    *)
(***************************************************************************)
EXTENDS Integers, Sequences, FiniteSets, TLC

VARIABLES
    fs,           \* the backing filesystem: key -> [kind, readable, size]
    fsOps,        \* number of filesystem changes made so far
    store,        \* the Filesystem object: [constructed, url, valid]
    closeCalled,  \* history: close() has been called on the store
    nodes,        \* the Node objects the client holds, in construction order
    iter,         \* the generator of the Directory.__iter__ pass in progress
    last          \* the last call made since the filesystem last changed, and
                  \* what it returned or raised

vars == <<fs, fsOps, store, closeCalled, nodes, iter, last>>

-----------------------------------------------------------------------------
(* Bounds of the model *)

MaxFsOps == 1     \* filesystem changes in one behaviour
MaxNodes == 1     \* Node objects the client keeps
MaxSize == 1      \* largest file size, in bytes

-----------------------------------------------------------------------------
(* Paths: posixpath.join and posixpath.dirname on character sequences *)

Sep == "/"

RootKey == <<Sep>>

NameSeq == << <<"a">>, <<"b">> >>

RECURSIVE rstrip(_)
rstrip(p) ==
    IF p /= <<>> /\ p[Len(p)] = Sep THEN rstrip(SubSeq(p, 1, Len(p) - 1)) ELSE p

\* 1-based position of the last separator of p, 0 when there is none
RECURSIVE rfind(_)
rfind(p) ==
    IF p = <<>> THEN 0
    ELSE IF p[Len(p)] = Sep THEN Len(p)
    ELSE rfind(SubSeq(p, 1, Len(p) - 1))

\* op.join(a, b)
join(a, b) ==
    IF b /= <<>> /\ b[1] = Sep THEN b
    ELSE IF a = <<>> \/ a[Len(a)] = Sep THEN a \o b
    ELSE a \o <<Sep>> \o b

\* op.dirname(p)
dirname(p) ==
    LET head == SubSeq(p, 1, rfind(p))
    IN  IF head /= <<>> /\ rstrip(head) /= <<>> THEN rstrip(head) ELSE head

\* The keys of the modelled filesystem: "/", "/a", "/a/a", "/a/b"
Keys ==
    {RootKey, join(RootKey, NameSeq[1])}
      \cup {join(join(RootKey, NameSeq[1]), NameSeq[i]) : i \in 1..Len(NameSeq)}

-----------------------------------------------------------------------------
(* The backing filesystem, as os and os.path see it *)

Kinds == {"none", "dir", "file", "other"}

Absent == [kind |-> "none", readable |-> TRUE, size |-> 0]

Entry(key) == IF key \in Keys THEN fs[key] ELSE Absent

exists(key) == Entry(key).kind /= "none"

isdir(key) == Entry(key).kind = "dir"

isfile(key) == Entry(key).kind = "file"

\* os.listdir(key): [ok |-> FALSE] stands for OSError
listdir(key) ==
    IF isdir(key) /\ Entry(key).readable
    THEN [ok |-> TRUE,
          names |-> SelectSeq(NameSeq, LAMBDA n : exists(join(key, n)))]
    ELSE [ok |-> FALSE, names |-> <<>>]

\* op.getsize(key): [ok |-> FALSE] stands for OSError (no such entry)
getsize(key) ==
    IF exists(key) THEN [ok |-> TRUE, size |-> Entry(key).size]
    ELSE [ok |-> FALSE, size |-> 0]

\* open(key, 'rb') and f.read(): [ok |-> FALSE] stands for IOError/OSError.
\* ioerr is a transient I/O error raised by the environment.
readfile(key, ioerr) ==
    IF exists(key) /\ ~isdir(key) /\ Entry(key).readable /\ ~ioerr
    THEN [ok |-> TRUE, data |-> [i \in 1..Entry(key).size |-> 1]]
    ELSE [ok |-> FALSE, data |-> <<>>]

-----------------------------------------------------------------------------
(* Values returned or raised by a call *)

NoNode == [type |-> "", key |-> <<>>, names |-> <<>>]

None == [tag |-> "none", err |-> "", node |-> NoNode, data |-> <<>>, flag |-> FALSE]

Raise(e) == [None EXCEPT !.tag = "err", !.err = e]

ReturnNode(nd) == [None EXCEPT !.tag = "node", !.node = nd]

ReturnData(d) == [None EXCEPT !.tag = "data", !.data = d]

ReturnBool(b) == [None EXCEPT !.tag = "bool", !.flag = b]

ReturnNull == [None EXCEPT !.tag = "null"]

-----------------------------------------------------------------------------
(* class Filesystem(compass_model.Store) *)

AcceptedURL == "file://localhost"

Urls == {AcceptedURL, "file://localhost/", "file://"}

NoStore == [constructed |-> FALSE, url |-> "", valid |-> FALSE]

\* Filesystem.can_handle(url)
Filesystem_can_handle_prefix(url) == url \in {AcceptedURL, "file://localhost/"}

Filesystem_can_handle(url) == url = AcceptedURL

\* Filesystem.__init__(url): the object constructed, or ValueError
Filesystem__init__(url) ==
    IF ~Filesystem_can_handle(url)
    THEN [res |-> Raise("InvalidURL"), store |-> NoStore]
    ELSE [res |-> None,
          store |-> [constructed |-> TRUE, url |-> url, valid |-> TRUE]]

\* Filesystem.close()
close_keeps_valid(s) == s

close(s) == [s EXCEPT !.valid = FALSE]

\* Filesystem.__contains__(key)
contains(key) == exists(key)

-----------------------------------------------------------------------------
(* class Directory(compass_model.Container), class File(compass_model.Array) *)

\* Directory.can_handle(store, key)
Directory_can_handle(key) == isdir(key)

\* File.can_handle(store, key)
File_can_handle_exists(key) == exists(key)

File_can_handle(key) == isfile(key)

\* Directory.__init__(store, key)
Directory__init__unguarded(key) ==
    IF listdir(key).ok
    THEN ReturnNode([type |-> "Directory", key |-> key, names |-> listdir(key).names])
    ELSE Raise("OSError")

Directory__init__(key) ==
    ReturnNode([type |-> "Directory", key |-> key,
                names |-> IF listdir(key).ok THEN listdir(key).names ELSE <<>>])

\* File.__init__(store, key)
File__init__(key) == ReturnNode([type |-> "File", key |-> key, names |-> <<>>])

\* Filesystem.push(File); Filesystem.push(Directory)
Registry == <<"File", "Directory">>

ReverseRegistry == <<"Directory", "File">>

NodeCanHandle(type, key) ==
    IF type = "Directory" THEN Directory_can_handle(key) ELSE File_can_handle(key)

NodeInit(type, key) ==
    IF type = "Directory" THEN Directory__init__(key) ELSE File__init__(key)

\* The first registered node type that can handle key, "" when none can
Dispatch(registry, key) ==
    LET hits == SelectSeq(registry, LAMBDA t : NodeCanHandle(t, key))
    IN  IF hits = <<>> THEN "" ELSE hits[1]

\* store[key]: compass_model.Store.__getitem__
Store__getitem__(s, key) ==
    IF ~s.valid THEN Raise("StoreClosed")
    ELSE IF ~contains(key) THEN Raise("NotFound")
    ELSE IF Dispatch(Registry, key) = "" THEN Raise("NoMatch")
    ELSE NodeInit(Dispatch(Registry, key), key)

\* Filesystem.get_parent(key): the value and the keys passed to store[...]
get_parent_no_root_case(s, key) ==
    [res |-> Store__getitem__(s, dirname(key)), via |-> <<dirname(key)>>]

get_parent(s, key) ==
    IF key = RootKey THEN [res |-> ReturnNull, via |-> <<>>]
    ELSE [res |-> Store__getitem__(s, dirname(key)), via |-> <<dirname(key)>>]

\* self._names as the Directory methods read it
names_relisted(d) == IF listdir(d.key).ok THEN listdir(d.key).names ELSE <<>>

names_of(d) == d.names

\* Directory.__len__()
Directory__len__(d) == Len(names_of(d))

\* self._names[idx] of a Python list: negative indices count from the end
ListIndex(ns, idx) ==
    LET j == IF idx < 0 THEN idx + Len(ns) ELSE idx
    IN  IF 0 <= j /\ j < Len(ns) THEN [ok |-> TRUE, at |-> j + 1]
        ELSE [ok |-> FALSE, at |-> 0]

\* Directory.__getitem__(idx)
Directory__getitem__no_wrap(s, d, idx) ==
    IF 0 <= idx /\ idx < Len(names_of(d))
    THEN [res |-> Store__getitem__(s, join(d.key, names_of(d)[idx + 1])),
          via |-> <<join(d.key, names_of(d)[idx + 1])>>]
    ELSE [res |-> Raise("IndexOutOfRange"), via |-> <<>>]

Directory__getitem__(s, d, idx) ==
    LET at == ListIndex(names_of(d), idx)
    IN  IF ~at.ok THEN [res |-> Raise("IndexOutOfRange"), via |-> <<>>]
        ELSE [res |-> Store__getitem__(s, join(d.key, names_of(d)[at.at])),
              via |-> <<join(d.key, names_of(d)[at.at])>>]

\* File.shape: (op.getsize(self.key),)
shape(key) == getsize(key)

\* len(self) of a File: the first element of shape
File__len__(key) == shape(key)

Zeros(n) == [i \in 1..n |-> 0]

Min(a, b) == IF a < b THEN a ELSE b

\* data[args] of a one-dimensional array, args a slice lo:hi or an index lo
Subscript(data, a) ==
    IF a.slice THEN ReturnData(SubSeq(data, a.lo + 1, Min(a.hi, Len(data))))
    ELSE IF ListIndex(data, a.lo).ok
         THEN ReturnData(<<data[ListIndex(data, a.lo).at]>>)
         ELSE Raise("IndexError")

\* File.__getitem__(args)
File__getitem__(key, a, ioerr) ==
    IF readfile(key, ioerr).ok THEN Subscript(readfile(key, ioerr).data, a)
    ELSE IF ~File__len__(key).ok THEN Raise("OSError")
    ELSE Subscript(Zeros(File__len__(key).size), a)

-----------------------------------------------------------------------------
(* State *)

NoCall ==
    [op |-> "none", url |-> "", key |-> <<>>, d |-> NoNode, slice |-> FALSE,
     lo |-> 0, hi |-> 0, res |-> None, via |-> <<>>, fail |-> FALSE]

NoIter == [d |-> NoNode, tried |-> <<>>, out |-> <<>>, st |-> "none"]

\* "/" holds the directory a, and /a holds the regular file b; nothing is
\* named /a/a yet.
InitFs ==
    [k \in Keys |->
        IF k = RootKey \/ k = join(RootKey, NameSeq[1])
            THEN [kind |-> "dir", readable |-> TRUE, size |-> 0]
        ELSE IF k = join(join(RootKey, NameSeq[1]), NameSeq[1])
            THEN Absent
        ELSE [kind |-> "file", readable |-> TRUE, size |-> MaxSize]]

Init ==
    /\ fs = InitFs
    /\ fsOps = 0
    /\ store = NoStore
    /\ closeCalled = FALSE
    /\ nodes = {}
    /\ iter = NoIter
    /\ last = NoCall

\* A generator that has finished or raised is dropped at the next call
Settled == IF iter.st \in {"done", "failed"} THEN NoIter ELSE iter

\* The client keeps the Node a call returned while it has room for one
Keep(res) ==
    IF res.tag = "node" /\ Cardinality(nodes) < MaxNodes THEN nodes \cup {res.node}
    ELSE nodes

DirNodes == {d \in nodes : d.type = "Directory"}

FileNodes == {d \in nodes : d.type = "File"}

IdxRange == (0 - Len(NameSeq) - 1) .. Len(NameSeq)

\* The file sizes the filesystem changes choose from
Sizes == {0, MaxSize}

FileArgs ==
    {[slice |-> TRUE, lo |-> l, hi |-> h] : l \in 0..1, h \in {MaxSize}}
      \cup {[slice |-> FALSE, lo |-> i, hi |-> i] : i \in {0 - 1, MaxSize}}

-----------------------------------------------------------------------------
(* The calls a client makes *)

\* Filesystem(url)
Construct(url) ==
    /\ ~store.constructed
    /\ store' = Filesystem__init__(url).store
    /\ last' = [NoCall EXCEPT !.op = "construct", !.url = url,
                              !.res = Filesystem__init__(url).res]
    /\ UNCHANGED <<fs, fsOps, closeCalled, nodes, iter>>

\* store.close()
Close ==
    /\ store.constructed
    /\ store' = close(store)
    /\ closeCalled' = TRUE
    /\ last' = [NoCall EXCEPT !.op = "close"]
    /\ iter' = Settled
    /\ UNCHANGED <<fs, fsOps, nodes>>

\* key in store
Contains(key) ==
    /\ store.constructed
    /\ last' = [NoCall EXCEPT !.op = "contains", !.key = key,
                              !.res = ReturnBool(contains(key))]
    /\ iter' = Settled
    /\ UNCHANGED <<fs, fsOps, store, closeCalled, nodes>>

\* store[key]
Resolve(key) ==
    /\ store.constructed
    /\ LET r == Store__getitem__(store, key)
       IN  /\ nodes' = Keep(r)
           /\ last' = [NoCall EXCEPT !.op = "resolve", !.key = key,
                                     !.via = <<key>>, !.res = r]
    /\ iter' = Settled
    /\ UNCHANGED <<fs, fsOps, store, closeCalled>>

\* store.root
GetRoot ==
    /\ store.constructed
    /\ LET r == Store__getitem__(store, RootKey)
       IN  /\ nodes' = Keep(r)
           /\ last' = [NoCall EXCEPT !.op = "root", !.via = <<RootKey>>, !.res = r]
    /\ iter' = Settled
    /\ UNCHANGED <<fs, fsOps, store, closeCalled>>

\* store.get_parent(key)
GetParent(key) ==
    /\ store.constructed
    /\ LET r == get_parent(store, key)
       IN  /\ nodes' = Keep(r.res)
           /\ last' = [NoCall EXCEPT !.op = "get_parent", !.key = key,
                                     !.via = r.via, !.res = r.res]
    /\ iter' = Settled
    /\ UNCHANGED <<fs, fsOps, store, closeCalled>>

\* d[idx] for a Directory node d the client holds
DirGetItem(d, idx) ==
    /\ d \in DirNodes
    /\ LET r == Directory__getitem__(store, d, idx)
       IN  /\ nodes' = Keep(r.res)
           /\ last' = [NoCall EXCEPT !.op = "dir_getitem", !.d = d, !.lo = idx,
                                     !.key = d.key, !.via = r.via, !.res = r.res]
    /\ iter' = Settled
    /\ UNCHANGED <<fs, fsOps, store, closeCalled>>

\* iter(d): a fresh generator of Directory.__iter__ for a node d
IterStart(d) ==
    /\ d \in DirNodes
    /\ iter' = [NoIter EXCEPT !.d = d, !.st = "running"]
    /\ last' = [NoCall EXCEPT !.op = "iter", !.d = d, !.key = d.key]
    /\ UNCHANGED <<fs, fsOps, store, closeCalled, nodes>>

\* next(generator): one turn of the for loop of Directory.__iter__
IterNext ==
    /\ iter.st = "running"
    /\ LET d == iter.d
           pos == Len(iter.tried)
           key == join(d.key, names_of(d)[pos + 1])
           r == Store__getitem__(store, key)
       IN  IF pos >= Len(names_of(d))
           THEN /\ iter' = [iter EXCEPT !.st = "done"]
                /\ last' = [NoCall EXCEPT !.op = "iter_next", !.d = d,
                                          !.key = d.key,
                                          !.res = Raise("StopIteration")]
           ELSE /\ iter' = [iter EXCEPT
                              !.tried = Append(@, key),
                              !.out = IF r.tag = "node"
                                      THEN Append(@, [key |-> r.node.key,
                                                      type |-> r.node.type])
                                      ELSE @,
                              !.st = IF r.tag = "node" THEN "running" ELSE "failed"]
                /\ last' = [NoCall EXCEPT !.op = "iter_next", !.d = d,
                                          !.key = d.key, !.via = <<key>>, !.res = r]
    /\ UNCHANGED <<fs, fsOps, store, closeCalled, nodes>>

\* f[args] for a File node f the client holds
FileGetItem(f, a, ioerr) ==
    /\ f \in FileNodes
    /\ last' = [NoCall EXCEPT !.op = "file_getitem", !.d = f, !.key = f.key,
                              !.slice = a.slice, !.lo = a.lo, !.hi = a.hi,
                              !.fail = ~readfile(f.key, ioerr).ok,
                              !.res = File__getitem__(f.key, a, ioerr)]
    /\ iter' = Settled
    /\ UNCHANGED <<fs, fsOps, store, closeCalled, nodes>>

-----------------------------------------------------------------------------
(* Changes other programs make to the filesystem *)

Below(k) == {c \in Keys : c /= k /\ Len(c) > Len(k) /\ SubSeq(c, 1, Len(k)) = k}

FsCreate(k, kind, size) ==
    /\ fsOps < MaxFsOps
    /\ k \in Keys \ {RootKey}
    /\ ~exists(k)
    /\ isdir(dirname(k))
    /\ kind = "file" \/ size = 0
    /\ fs' = [fs EXCEPT ![k] = [kind |-> kind, readable |-> TRUE, size |-> size]]
    /\ fsOps' = fsOps + 1
    /\ last' = NoCall
    /\ iter' = Settled
    /\ UNCHANGED <<store, closeCalled, nodes>>

FsRemove(k) ==
    /\ fsOps < MaxFsOps
    /\ k \in Keys \ {RootKey}
    /\ exists(k)
    /\ fs' = [c \in Keys |-> IF c = k \/ c \in Below(k) THEN Absent ELSE fs[c]]
    /\ fsOps' = fsOps + 1
    /\ last' = NoCall
    /\ iter' = Settled
    /\ UNCHANGED <<store, closeCalled, nodes>>

FsChmod(k) ==
    /\ fsOps < MaxFsOps
    /\ isdir(k)
    /\ fs' = [fs EXCEPT ![k].readable = ~@]
    /\ fsOps' = fsOps + 1
    /\ last' = NoCall
    /\ iter' = Settled
    /\ UNCHANGED <<store, closeCalled, nodes>>

FsResize(k, size) ==
    /\ fsOps < MaxFsOps
    /\ isfile(k)
    /\ size /= fs[k].size
    /\ fs' = [fs EXCEPT ![k].size = size]
    /\ fsOps' = fsOps + 1
    /\ last' = NoCall
    /\ iter' = Settled
    /\ UNCHANGED <<store, closeCalled, nodes>>

-----------------------------------------------------------------------------

Next ==
    \/ \E url \in Urls : Construct(url)
    \/ Close
    \/ \E key \in Keys : Contains(key)
    \/ \E key \in Keys : Resolve(key)
    \/ GetRoot
    \/ \E key \in Keys : GetParent(key)
    \/ \E d \in nodes, idx \in IdxRange : DirGetItem(d, idx)
    \/ \E d \in nodes : IterStart(d)
    \/ IterNext
    \/ \E f \in nodes, a \in FileArgs, ioerr \in BOOLEAN : FileGetItem(f, a, ioerr)
    \/ \E k \in Keys, kind \in Kinds \ {"none"}, size \in Sizes : FsCreate(k, kind, size)
    \/ \E k \in Keys : FsRemove(k)
    \/ \E k \in Keys : FsChmod(k)
    \/ \E k \in Keys, size \in Sizes : FsResize(k, size)

Spec == Init /\ [][Next]_vars

TypeOK ==
    /\ fsOps \in 0..MaxFsOps
    /\ Cardinality(nodes) <= MaxNodes
    /\ store.valid => store.constructed

-----------------------------------------------------------------------------
(* Properties *)

\* The calls that resolve a key through the store
ResolutionOps == {"resolve", "root", "get_parent", "dir_getitem", "iter_next"}

\* A key with its last path component removed, from the components themselves
RECURSIVE Split(_, _)
Split(p, cur) ==
    IF p = <<>> THEN (IF cur = <<>> THEN <<>> ELSE <<cur>>)
    ELSE IF Head(p) = Sep
         THEN (IF cur = <<>> THEN <<>> ELSE <<cur>>) \o Split(Tail(p), <<>>)
         ELSE Split(Tail(p), Append(cur, Head(p)))

RECURSIVE Unsplit(_)
Unsplit(cs) == IF cs = <<>> THEN <<>> ELSE <<Sep>> \o Head(cs) \o Unsplit(Tail(cs))

ParentPath(k) ==
    LET cs == Split(k, <<>>)
    IN  IF Len(cs) <= 1 THEN RootKey ELSE Unsplit(SubSeq(cs, 1, Len(cs) - 1))

\* C1: once close() has been called, no call returns a Node, and every key
\* resolution (store[key], store.root, get_parent of a non-root key, a child
\* resolved by a Directory through its store) raises StoreClosed.
C1_ClosedStoreResolutionsFail ==
    (closeCalled /\ last.op \in ResolutionOps) =>
        /\ last.res.tag /= "node"
        /\ (last.op \in {"resolve", "root"}) => last.via /= <<>>
        /\ (last.op = "get_parent" /\ last.key /= RootKey) => last.via /= <<>>
        /\ last.via /= <<>> => last.res = Raise("StoreClosed")

C1_Witness ==
    /\ closeCalled
    /\ last.op = "dir_getitem"
    /\ last.via /= <<>>
    /\ last.res = Raise("StoreClosed")

\* C2 (as claimed): on a valid store a finished pass of iteration over a
\* Directory d produced exactly len(d) nodes, and d[i] for i in [0, len(d)) is
\* the node with the key of the i-th captured name.
C2_IterationYieldsLenNodes ==
    (store.valid /\ ~closeCalled) =>
        /\ iter.st \in {"done", "failed"} =>
              /\ iter.st = "done"
              /\ Len(iter.out) = Len(iter.d.names)
        /\ (last.op = "dir_getitem" /\ 0 <= last.lo /\ last.lo < Len(last.d.names)) =>
              /\ last.res.tag = "node"
              /\ last.res.node.key = join(last.d.key, last.d.names[last.lo + 1])

\* C3 (as claimed): a File read whose open or read failed raises nothing and
\* returns the requested part of a zero-filled buffer of the reported size.
C3_UnreadableFileReadsZeros ==
    (last.op = "file_getitem" /\ last.fail) =>
        /\ last.res.err /= "OSError"
        /\ shape(last.key).ok =>
              last.res = Subscript(Zeros(shape(last.key).size),
                                   [slice |-> last.slice, lo |-> last.lo, hi |-> last.hi])

\* C4: resolving a directory on a valid store always returns a Directory node;
\* when its listing fails the node has no names, len 0, and a pass of
\* iteration over a node without names ends at once having produced nothing.
C4_UnlistableDirectoryIsEmpty ==
    /\ (last.via /= <<>> /\ store.valid /\ isdir(last.via[1])) =>
          /\ last.res.tag = "node"
          /\ last.res.node.type = "Directory"
          /\ last.res.node.key = last.via[1]
          /\ ~listdir(last.via[1]).ok =>
                /\ last.res.node.names = <<>>
                /\ Directory__len__(last.res.node) = 0
    /\ (iter.st \in {"done", "failed"} /\ iter.d.names = <<>>) =>
          /\ iter.st = "done"
          /\ iter.tried = <<>>
          /\ iter.out = <<>>

C4_Witness ==
    /\ last.op = "resolve"
    /\ isdir(last.key)
    /\ ~listdir(last.key).ok
    /\ last.res.tag = "node"
    /\ Directory__len__(last.res.node) = 0

\* C5 (as claimed): on a valid store every key that the store contains
\* resolves to a Node with that key, and exactly one of Directory and File
\* can handle it.
C5_ContainedKeysResolve ==
    (last.op = "resolve" /\ store.valid /\ contains(last.key)) =>
        /\ last.res.tag = "node"
        /\ last.res.node.key = last.key
        /\ Cardinality({t \in {"Directory", "File"} : NodeCanHandle(t, last.key)}) = 1

\* C6: get_parent("/") returns None and resolves nothing; for any other key
\* it resolves the key with its last path component removed and returns what
\* that resolution returns, a Node with exactly that parent key.
C6_GetParent ==
    last.op = "get_parent" =>
        IF last.key = RootKey
        THEN last.res = ReturnNull /\ last.via = <<>>
        ELSE /\ last.via = <<ParentPath(last.key)>>
             /\ last.res = Store__getitem__(store, ParentPath(last.key))
             /\ last.res.tag = "node" => last.res.node.key = ParentPath(last.key)

C6_Witness ==
    /\ last.op = "get_parent"
    /\ Len(Split(last.key, <<>>)) = 2
    /\ last.res.tag = "node"
    /\ last.res.node.key = ParentPath(last.key)
    /\ last.res.node.key /= RootKey

\* C7 (as claimed): d[i] raises IndexOutOfRange for every i outside
\* [0, len(d)), and for i inside resolves the key of the i-th captured name.
C7_OutsideZeroToLenFails ==
    last.op = "dir_getitem" =>
        IF 0 <= last.lo /\ last.lo < Len(last.d.names)
        THEN /\ last.via = <<join(last.d.key, last.d.names[last.lo + 1])>>
             /\ last.res = Store__getitem__(store, last.via[1])
        ELSE last.res = Raise("IndexOutOfRange") /\ last.via = <<>>

\* C7 (amended): d[i] raises IndexOutOfRange, resolving nothing, exactly when
\* i >= len(d) or i < -len(d); for 0 <= i < len(d) it is the resolution of the
\* key of the i-th captured name, and for -len(d) <= i < 0 that of the
\* (len(d) + i)-th captured name.
C7_IndexingWithNegativeWrap ==
    last.op = "dir_getitem" =>
        LET n == Len(last.d.names)
            j == IF last.lo < 0 THEN last.lo + n ELSE last.lo
        IN  IF last.lo >= n \/ last.lo < 0 - n
            THEN last.res = Raise("IndexOutOfRange") /\ last.via = <<>>
            ELSE /\ last.via = <<join(last.d.key, last.d.names[j + 1])>>
                 /\ last.res = Store__getitem__(store, last.via[1])

C7_Witness ==
    /\ last.op = "dir_getitem"
    /\ last.lo < 0
    /\ last.res.tag = "node"
    /\ last.res.node.key = join(last.d.key, last.d.names[Len(last.d.names)])

\* C8: the store becomes valid only by construction with the accepted URL,
\* construction with another URL raises InvalidURL and leaves no store,
\* close() clears valid, and once close() has been called every later step
\* leaves valid false and url unchanged.
C8_StoreLifecycle ==
    [][/\ store'.valid => (store'.constructed /\ store'.url = AcceptedURL)
       /\ (store'.valid /\ ~store.valid) =>
             (~store.constructed /\ last'.op = "construct" /\ last'.url = AcceptedURL)
       /\ (last'.op = "construct" /\ last'.url /= AcceptedURL) =>
             (last'.res = Raise("InvalidURL") /\ store' = NoStore)
       /\ store.constructed => store'.constructed
       /\ closeCalled' => ~store'.valid
       /\ closeCalled => (closeCalled' /\ store'.url = store.url)
      ]_vars

C8_Witness ==
    /\ closeCalled
    /\ ~store.valid
    /\ store.url = AcceptedURL
    /\ last.op \in ResolutionOps \cup {"contains"}

\* C9: a held Directory node never changes: its len stays what it was, and a
\* pass of iteration tries exactly the keys of the names captured at
\* construction, in capture order, whatever the filesystem has become.
C9_NamesCapturedOnce ==
    [][/\ nodes \subseteq nodes'
       /\ \A d \in nodes : Directory__len__(d)' = Directory__len__(d)
       /\ iter'.st /= "none" =>
             /\ Len(iter'.tried) <= Len(iter'.d.names)
             /\ \A i \in 1..Len(iter'.tried) :
                   iter'.tried[i] = join(iter'.d.key, iter'.d.names[i])
             /\ iter'.st = "done" => Len(iter'.tried) = Len(iter'.d.names)
             /\ last'.op = "iter_next" => iter'.d = iter.d
      ]_vars

C9_Witness ==
    /\ iter.st = "done"
    /\ iter.tried /= <<>>
    /\ listdir(iter.d.key).ok
    /\ Len(listdir(iter.d.key).names) > Len(iter.d.names)
    /\ Len(iter.tried) = Len(iter.d.names)

\* C10: resolution constructs the first registered node type that can handle
\* the key, raises NoMatch when none can, and chooses the same type for every
\* key whether File or Directory is registered first.
C10_DispatchOrderIrrelevant ==
    /\ \A k \in Keys : Dispatch(Registry, k) = Dispatch(ReverseRegistry, k)
    /\ (last.op = "resolve" /\ store.valid /\ contains(last.key)) =>
          LET hits == {i \in 1..Len(Registry) : NodeCanHandle(Registry[i], last.key)}
          IN  IF hits = {} THEN last.res = Raise("NoMatch")
              ELSE /\ last.res.tag = "node"
                   /\ \E i \in hits :
                         /\ \A j \in hits : i <= j
                         /\ last.res.node.type = Registry[i]

C10_Witness ==
    /\ last.op = "resolve"
    /\ last.res.tag = "node"
    /\ last.res.node.type = Registry[2]
    /\ ~NodeCanHandle(Registry[1], last.key)

====
